---------------------------- MODULE Spec2Model ----------------------------
(***************************************************************************)
(* Model of src/assignment.py: the header-detecting loader                 *)
(* (load_and_clean_file), the denial aggregator (analyze_billing_data) and *)
(* the top-level script that chains them.                                  *)
(*                                                                         *)
(* A cell is a tagged value (null / string / number).  A string is a       *)
(* sequence of symbols; the symbol " " is whitespace, every other symbol   *)
(* is a whitespace-free word.  A table is a list of column names plus a    *)
(* list of rows (positional, so duplicate names can be represented).       *)
(***************************************************************************)
EXTENDS Integers, Sequences, FiniteSets, TLC

VARIABLES
    grid,          \* the raw grid read with header=None (df_raw before cleaning)
    clean,         \* the Clean Table as the loader produced it / as the caller supplied it
    df,            \* the table object handed to / mutated by analyze_billing_data
    pc,            \* position of the script / of the caller
    messages,      \* user-facing messages emitted so far (st.error and the summary)
    results,       \* the values returned by the calls of analyze_billing_data
    argsort_unstable  \* whether this build's default "quicksort" argsort reorders ties

vars == <<grid, clean, df, pc, messages, results, argsort_unstable>>

---------------------------------------------------------------------------
(* Bounds of the model *)

MaxGridRows == 4
MaxRecs == 3

(* Program constant: minimum number of non-null cells of a header row *)
HeaderMinNonNull == 3

---------------------------------------------------------------------------
(* Cells and strings *)

Null == [t |-> "null", s |-> <<>>, n |-> 0]
Str(s) == [t |-> "str", s |-> s, n |-> 0]
Num(n) == [t |-> "num", s |-> <<>>, n |-> n]

CPT_CODE == <<"CPT", " ", "Code">>
PAYMENT_AMOUNT == <<"Payment", " ", "Amount">>
BALANCE == <<"Balance">>
DENIAL_REASON == <<"Denial", " ", "Reason">>
INSURANCE_COMPANY_NAME == <<"Insurance", " ", "Company", " ", "Name">>
PHYSICIAN_NAME == <<"Physician", " ", "Name">>
IS_DENIED == <<"Is_Denied">>

(* str(x): a string is itself, a number its decimal form, NaN is "nan" *)
str_of(c) ==
    IF c.t = "str" THEN c.s
    ELSE IF c.t = "num" THEN <<ToString(c.n)>>
    ELSE <<"nan">>

RECURSIVE lstrip(_)
lstrip(s) == IF s # <<>> /\ Head(s) = " " THEN lstrip(Tail(s)) ELSE s

RECURSIVE rstrip(_)
rstrip(s) ==
    IF s # <<>> /\ s[Len(s)] = " " THEN rstrip(SubSeq(s, 1, Len(s) - 1)) ELSE s

strip(s) == rstrip(lstrip(s))

(* Symbols in the order Python compares them (code points of their text);  *)
(* no symbol used in a grouping key is a proper prefix of another one used *)
(* at the same place, so comparing symbol by symbol agrees with comparing  *)
(* character by character.                                                 *)
Alphabet ==
    <<" ", "0", "1", "5", "7", "A", "Amount", "B", "Balance", "CPT", "Code",
      "Company", "D", "Denial", "E", "Insurance", "Is_Denied", "Name", "P",
      "Payment", "Physician", "Q", "Reason", "Report", "late", "nan">>

SymRank(x) == CHOOSE k \in DOMAIN Alphabet : Alphabet[k] = x

RECURSIVE str_lt(_, _)
str_lt(a, b) ==
    IF a = <<>> THEN b # <<>>
    ELSE IF b = <<>> THEN FALSE
    ELSE IF Head(a) = Head(b) THEN str_lt(Tail(a), Tail(b))
    ELSE SymRank(Head(a)) < SymRank(Head(b))

(* Order of group keys after groupby(sort=True): numbers before strings *)
key_lt(a, b) ==
    IF a.t = "num" /\ b.t = "num" THEN a.n < b.n
    ELSE IF a.t = "num" THEN b.t = "str"
    ELSE IF b.t = "num" THEN FALSE
    ELSE str_lt(a.s, b.s)

---------------------------------------------------------------------------
(* Tables *)

None == [none |-> TRUE, columns |-> <<>>, data |-> <<>>]
DataFrame(cols, rows) == [none |-> FALSE, columns |-> cols, data |-> rows]

(* 'name' in df.columns *)
HasCol(d, name) == \E j \in DOMAIN d.columns : d.columns[j] = name

ColIdx(d, name) == CHOOSE j \in DOMAIN d.columns : d.columns[j] = name

(* df[name] *)
getitem(d, name) == [i \in DOMAIN d.data |-> d.data[i][ColIdx(d, name)]]

(* df[name] = vals : overwrite in place, or append a new last column *)
setitem(d, name, vals) ==
    IF HasCol(d, name)
    THEN [d EXCEPT !.data =
            [i \in DOMAIN d.data |-> [d.data[i] EXCEPT ![ColIdx(d, name)] = vals[i]]]]
    ELSE [d EXCEPT !.columns = Append(@, name),
                   !.data = [i \in DOMAIN d.data |-> Append(d.data[i], vals[i])]]

---------------------------------------------------------------------------
(* load_and_clean_file *)

(* row.notnull().sum() *)
notnull_sum(row) == Cardinality({j \in DOMAIN row : row[j].t # "null"})

(* df_raw.dropna(how='all', inplace=True): the surviving rows keep their    *)
(* original index labels (0-based row numbers of the raw grid)             *)
dropna_all(g) ==
    SelectSeq([i \in DOMAIN g |-> [label |-> i - 1, row |-> g[i]]],
              LAMBDA r : notnull_sum(r.row) > 0)

(* mutant: the threshold off by one *)
is_header_loose(row) == notnull_sum(row) >= HeaderMinNonNull - 1

is_header(row) == notnull_sum(row) >= HeaderMinNonNull

(* iloc[start:] with a 0-based positional start *)
iloc_from(rows, start) ==
    IF start >= Len(rows) THEN <<>>
    ELSE [k \in 1 .. (Len(rows) - start) |-> rows[k + start]]

load_and_clean_file(g) ==
    LET df_raw == dropna_all(g)
        hits == {p \in DOMAIN df_raw : is_header(df_raw[p].row)}
    IN  IF hits = {} THEN None
        ELSE LET p == CHOOSE q \in hits : \A r \in hits : q <= r
                 i == df_raw[p].label
                 row == df_raw[p].row
                 df_cleaned == iloc_from([k \in DOMAIN df_raw |-> df_raw[k].row], i + 1)
             IN  DataFrame([j \in DOMAIN row |-> strip(str_of(row[j]))], df_cleaned)

---------------------------------------------------------------------------
(* pandas helpers used by analyze_billing_data *)

(* Distinct non-null values in order of first appearance (hash-table order  *)
(* of value_counts; NaN keys are dropped)                                   *)
RECURSIVE unique(_)
unique(cells) ==
    IF cells = <<>> THEN <<>>
    ELSE LET rest == unique(SubSeq(cells, 1, Len(cells) - 1))
             last == cells[Len(cells)]
         IN  IF last.t = "null" \/ (\E k \in DOMAIN rest : rest[k] = last)
             THEN rest
             ELSE Append(rest, last)

(* Metrics are kept as exact fractions num/den (a count c is c/1) *)
metric_gt(a, b) == a.num * b.den > b.num * a.den

(* Position i of the input goes before position j in a descending sort.     *)
(* Ties: a stable argsort keeps the input order; numpy's default quicksort  *)
(* promises no order for ties, modelled by the mirrored order.              *)
sorts_before(items, stable, i, j) ==
    \/ metric_gt(items[i], items[j])
    \/ /\ ~metric_gt(items[j], items[i])
       /\ IF stable THEN i < j ELSE i > j

RECURSIVE sort_from(_, _, _)
sort_from(items, stable, rem) ==
    IF rem = {} THEN <<>>
    ELSE LET b == CHOOSE i \in rem :
                    \A j \in rem \ {i} : sorts_before(items, stable, i, j)
         IN  <<items[b]>> \o sort_from(items, stable, rem \ {b})

RECURSIVE reverse(_)
reverse(seq) == IF seq = <<>> THEN <<>> ELSE Append(reverse(Tail(seq)), Head(seq))

(* mutant: ascending=False forgotten *)
sort_values_asc(items, stable) == reverse(sort_from(items, stable, DOMAIN items))

(* sort_values(ascending=False) *)
sort_values_desc(items, stable) == sort_from(items, stable, DOMAIN items)

(* series.value_counts().reset_index(): one entry per distinct non-null     *)
(* value, sorted by count descending                                        *)
value_counts(cells, stable) ==
    LET keys == unique(cells)
        counted == [k \in DOMAIN keys |->
                      [key |-> keys[k],
                       num |-> Cardinality({i \in DOMAIN cells : cells[i] = keys[k]}),
                       den |-> 1]]
    IN  sort_values_desc(counted, stable)

(* a column restricted to the rows of an index set, in table order *)
take(cells, idx) ==
    LET marked == [i \in DOMAIN cells |-> [keep |-> i \in idx, c |-> cells[i]]]
        kept == SelectSeq(marked, LAMBDA m : m.keep)
    IN  [k \in DOMAIN kept |-> kept[k].c]

RECURSIVE sorted_keys(_)
sorted_keys(ks) ==
    IF ks = {} THEN <<>>
    ELSE LET m == CHOOSE a \in ks : \A b \in ks \ {a} : key_lt(a, b)
         IN  <<m>> \o sorted_keys(ks \ {m})

RECURSIVE sum_n(_)
sum_n(cells) == IF cells = <<>> THEN 0 ELSE Head(cells).n + sum_n(Tail(cells))

(* mutant: the denied count of a code divided by the size of the table *)
groupby_mean_of_table(keycells, valcells) ==
    LET ks == sorted_keys({keycells[i] : i \in {j \in DOMAIN keycells : keycells[j].t # "null"}})
    IN  [k \in DOMAIN ks |->
           [key |-> ks[k],
            num |-> sum_n(take(valcells, {i \in DOMAIN keycells : keycells[i] = ks[k]})),
            den |-> Len(keycells)]]

(* df.groupby(key)[val].mean().reset_index(): one entry per distinct        *)
(* non-null key, in ascending key order (groupby sorts its keys)            *)
groupby_mean(keycells, valcells) ==
    LET ks == sorted_keys({keycells[i] : i \in {j \in DOMAIN keycells : keycells[j].t # "null"}})
    IN  [k \in DOMAIN ks |->
           LET members == {i \in DOMAIN keycells : keycells[i] = ks[k]}
           IN  [key |-> ks[k],
                num |-> sum_n(take(valcells, members)),
                den |-> Cardinality(members)]]

(* mutant: only the first row of the breakdown is named *)
top_denying_first(breakdown) ==
    IF breakdown = <<>> THEN <<>> ELSE <<str_of(breakdown[1].key)>>

(* frame[frame['Denial Count'] == frame['Denial Count'].max()][label].tolist() *)
top_denying(breakdown) ==
    LET mx == CHOOSE m \in {breakdown[k].num : k \in DOMAIN breakdown} :
                 \A k \in DOMAIN breakdown : breakdown[k].num <= m
        top == SelectSeq(breakdown, LAMBDA e : e.num = mx)
    IN  IF breakdown = <<>> THEN <<>>
        ELSE [k \in DOMAIN top |-> str_of(top[k].key)]

(* series.head(n) *)
head(seq, n) == IF Len(seq) <= n THEN seq ELSE SubSeq(seq, 1, n)

---------------------------------------------------------------------------
(* analyze_billing_data *)

ERR_DENIAL_COLUMNS == "must contain 'Payment' and/or 'Balances' columns"
ERR_CPT_COLUMN == "must contain a 'CPT Code' column"
TXT_NO_DENIALS == "No significant denials to analyze for root causes."
TXT_NO_FIXES == "No specific fixes needed based on current data."
TXT_ROOT_CAUSES == "Based on the analysis of top denied CPTs and payer/provider trends"
TXT_FIXES == "Based on the identified root causes, here are recommended fixes"
FIG_PAYER == "Denials by Insurance Company"
FIG_PROVIDER == "Denials by Physician"

Narrative(text, codes, payers, providers) ==
    [text |-> text, codes |-> codes, payers |-> payers, providers |-> providers]

Return(kind, errors, top, rates, byPayer, byProvider, causes, fixes, figs) ==
    [kind |-> kind, errors |-> errors,
     top_denied_cpts |-> top, cpt_denial_rates |-> rates,
     denials_by_payer |-> byPayer, denials_by_provider |-> byProvider,
     root_causes_summary |-> causes, recommended_fixes |-> fixes,
     figures |-> figs]

(* return None, None, None, [] after st.error(msg) *)
ErrorReturn(msg) ==
    Return("error", <<msg>>, <<>>, <<>>, <<>>, <<>>,
           Narrative("None", <<>>, <<>>, <<>>), "None", <<>>)

(* return pd.DataFrame(), "No significant denials ...", "No specific fixes ...", [] *)
NoDenialsReturn ==
    Return("no_denials", <<>>, <<>>, <<>>, <<>>, <<>>,
           Narrative(TXT_NO_DENIALS, <<>>, <<>>, <<>>), TXT_NO_FIXES, <<>>)

(* an exception escaping the function (caught by the script's try/except) *)
Raised ==
    Return("raised", <<>>, <<>>, <<>>, <<>>, <<>>,
           Narrative("None", <<>>, <<>>, <<>>), "None", <<>>)

(* mutant: the guard tests 'CPT Code' where it should test 'Payment Amount' *)
denial_columns_missing_wrong_name(d) ==
    ~HasCol(d, CPT_CODE) /\ ~HasCol(d, BALANCE)

(* line 37: neither 'Payment Amount' nor 'Balance' is a column *)
denial_columns_missing(d) ==
    ~HasCol(d, PAYMENT_AMOUNT) /\ ~HasCol(d, BALANCE)

NO_SOURCE == <<>>

(* mutant: 'Payment Amount' tested before 'Denial Reason' *)
denial_source_payment_first(d) ==
    IF HasCol(d, PAYMENT_AMOUNT) THEN PAYMENT_AMOUNT
    ELSE IF HasCol(d, DENIAL_REASON) THEN DENIAL_REASON
    ELSE IF HasCol(d, BALANCE) THEN BALANCE
    ELSE NO_SOURCE

(* lines 46-53: which column the flag is derived from *)
denial_source(d) ==
    IF HasCol(d, DENIAL_REASON) THEN DENIAL_REASON
    ELSE IF HasCol(d, PAYMENT_AMOUNT) THEN PAYMENT_AMOUNT
    ELSE IF HasCol(d, BALANCE) THEN BALANCE
    ELSE NO_SOURCE

(* the per-record flag computed from a cell of the source column *)
denial_flag(src, c) ==
    IF src = DENIAL_REASON
    THEN IF c.t # "null" /\ strip(str_of(c)) # <<>> THEN Num(1) ELSE Num(0)
    ELSE IF src = PAYMENT_AMOUNT
    THEN IF c.t = "num" /\ c.n = 0 THEN Num(1) ELSE Num(0)
    ELSE IF c.t = "num" /\ c.n > 0 THEN Num(1) ELSE Num(0)

(* df['Balance'] > 0 raises TypeError when a cell of the column is a string *)
classification_raises(d) ==
    /\ denial_source(d) = BALANCE
    /\ \E i \in DOMAIN d.data : getitem(d, BALANCE)[i].t = "str"

(* mutant: the flag overwrites the column it was derived from *)
FlagColumn_in_place(src) == IF src = NO_SOURCE THEN IS_DENIED ELSE src

(* the column the derived flag is stored in (lines 47, 51, 53) and read     *)
(* back from (lines 60, 73)                                                *)
FlagColumn(src) == IS_DENIED

(* lines 44-53: df['Is_Denied'] = 0, then the first branch whose column    *)
(* exists overwrites it; with no such column the zeros stay                *)
classify(d) ==
    LET d1 == setitem(d, IS_DENIED, [i \in DOMAIN d.data |-> Num(0)])
        src == denial_source(d)
    IN  IF src = NO_SOURCE \/ classification_raises(d) THEN d1
        ELSE setitem(d1, FlagColumn(src),
                     [i \in DOMAIN d1.data |-> denial_flag(src, getitem(d1, src)[i])])

(* mutant: the comparison inverted (== 0) *)
denied_rows_inverted(d, src) ==
    LET flags == getitem(d, FlagColumn(src))
    IN  {i \in DOMAIN d.data : flags[i].t = "num" /\ flags[i].n = 0}

(* line 60: indices of df[df['Is_Denied'] == 1] *)
denied_rows(d, src) ==
    LET flags == getitem(d, FlagColumn(src))
    IN  {i \in DOMAIN d.data : flags[i].t = "num" /\ flags[i].n = 1}

(* lines 66-168 *)
denial_report(d, src, stable) ==
    LET denied == denied_rows(d, src)
        flags == getitem(d, FlagColumn(src))
        top_denied_cpts == value_counts(take(getitem(d, CPT_CODE), denied), stable)
        cpt_denial_rates ==
            sort_values_desc(groupby_mean(getitem(d, CPT_CODE), flags), stable)
        hasPayer == HasCol(d, INSURANCE_COMPANY_NAME)
        hasProvider == HasCol(d, PHYSICIAN_NAME)
        denials_by_payer ==
            IF hasPayer
            THEN value_counts(take(getitem(d, INSURANCE_COMPANY_NAME), denied), stable)
            ELSE <<>>
        denials_by_provider ==
            IF hasProvider
            THEN value_counts(take(getitem(d, PHYSICIAN_NAME), denied), stable)
            ELSE <<>>
        figures == (IF hasPayer THEN <<FIG_PAYER>> ELSE <<>>)
                   \o (IF hasProvider THEN <<FIG_PROVIDER>> ELSE <<>>)
        codes == [k \in DOMAIN head(top_denied_cpts, 3) |-> str_of(top_denied_cpts[k].key)]
    IN  Return("report", <<>>, top_denied_cpts, cpt_denial_rates,
               denials_by_payer, denials_by_provider,
               Narrative(TXT_ROOT_CAUSES, codes,
                         top_denying(denials_by_payer), top_denying(denials_by_provider)),
               TXT_FIXES, figures)

(* the function: the table as it leaves it, and what it returns *)
analyze_billing_data(d, stable) ==
    IF denial_columns_missing(d)
    THEN [df |-> d, ret |-> ErrorReturn(ERR_DENIAL_COLUMNS)]
    ELSE LET src == denial_source(d)
             d2 == classify(d)
         IN  IF classification_raises(d) THEN [df |-> d2, ret |-> Raised]
             ELSE IF ~HasCol(d2, CPT_CODE)
             THEN [df |-> d2, ret |-> ErrorReturn(ERR_CPT_COLUMN)]
             ELSE IF denied_rows(d2, src) = {}
             THEN [df |-> d2, ret |-> NoDenialsReturn]
             ELSE [df |-> d2, ret |-> denial_report(d2, src, stable)]

---------------------------------------------------------------------------
(* The script (lines 177-201): upload, load, then report or analyze *)

ERR_NO_HEADER == "Unable to detect a valid header row."
ERR_PROCESSING == "Error processing file"
MSG_SUMMARY == "Summary of Analysis:"

(* Rows a raw grid is made of: a blank spacer, a title, a two-cell row, two *)
(* header rows (with untrimmed names, one with gaps) and two data rows      *)
RowPool ==
    { <<Null, Null, Null, Null, Null>>,
      <<Str(<<"Report">>), Null, Null, Null, Null>>,
      <<Str(<<"A">>), Num(0), Null, Null, Null>>,
      <<Str(<<" ", "CPT", " ", "Code">>), Str(<<"Payment", " ", "Amount", " ">>),
        Str(<<"Balance">>), Str(<<"Denial", " ", "Reason">>),
        Str(<<"Insurance", " ", "Company", " ", "Name">>)>>,
      <<Str(<<"CPT", " ", "Code">>), Null, Str(<<" ", "Balance", " ">>), Null,
        Str(<<"Physician", " ", "Name">>)>>,
      <<Str(<<"A">>), Num(0), Num(7), Null, Str(<<"P">>)>>,
      <<Str(<<"B">>), Num(5), Num(0), Str(<<"late">>), Str(<<"Q">>)>> }

Grids == UNION {[1 .. k -> RowPool] : k \in 0 .. MaxGridRows}

InitLoad ==
    /\ argsort_unstable \in BOOLEAN
    /\ grid \in Grids
    /\ clean = None
    /\ df = None
    /\ pc = "uploaded"
    /\ messages = <<>>
    /\ results = <<>>

(* line 183: df = load_and_clean_file(uploaded_file) *)
Load ==
    /\ pc = "uploaded"
    /\ df' = load_and_clean_file(grid)
    /\ clean' = df'
    /\ pc' = "loaded"
    /\ UNCHANGED <<grid, messages, results, argsort_unstable>>

(* lines 185-186: df is None *)
ReportNoHeader ==
    /\ pc = "loaded"
    /\ df.none
    /\ messages' = Append(messages, ERR_NO_HEADER)
    /\ pc' = "done"
    /\ UNCHANGED <<grid, clean, df, results, argsort_unstable>>

(* lines 187-201: the analysis, its summary, and the except clause *)
Analyze ==
    /\ pc = "loaded"
    /\ ~df.none
    /\ LET r == analyze_billing_data(df, ~argsort_unstable)
       IN  /\ df' = r.df
           /\ results' = Append(results, r.ret)
           /\ messages' = messages \o r.ret.errors \o
                            (IF r.ret.kind = "raised" THEN <<ERR_PROCESSING>>
                             ELSE IF r.ret.kind # "error" THEN <<MSG_SUMMARY>>
                             ELSE <<>>)
    /\ pc' = "done"
    /\ UNCHANGED <<grid, clean, argsort_unstable>>

NextLoad == Load \/ ReportNoHeader \/ Analyze

SpecLoad == InitLoad /\ [][NextLoad]_vars

---------------------------------------------------------------------------
(* Direct calls of analyze_billing_data on a Clean Table *)

Schemas ==
    { <<>>,
      <<CPT_CODE>>,
      <<DENIAL_REASON>>,
      <<CPT_CODE, DENIAL_REASON>>,
      <<CPT_CODE, PAYMENT_AMOUNT>>,
      <<CPT_CODE, BALANCE>>,
      <<PAYMENT_AMOUNT, BALANCE, DENIAL_REASON>>,
      <<CPT_CODE, PAYMENT_AMOUNT, INSURANCE_COMPANY_NAME>>,
      <<CPT_CODE, BALANCE, PHYSICIAN_NAME>> }

(* the values a column takes; a null (NaN) code occurs in the tables of at  *)
(* most two columns                                                        *)
CellsOf(schema, col) ==
    IF col = CPT_CODE
    THEN {Str(<<"A">>), Str(<<"B">>)} \cup (IF Len(schema) <= 2 THEN {Null} ELSE {})
    ELSE IF col = DENIAL_REASON THEN {Null, Str(<<" ">>), Str(<<"late">>)}
    ELSE IF col = PAYMENT_AMOUNT THEN {Num(0), Num(5)}
    ELSE IF col = BALANCE THEN {Num(0), Num(7)}
    ELSE IF col = INSURANCE_COMPANY_NAME THEN {Str(<<"P">>), Str(<<"Q">>)}
    ELSE {Str(<<"D">>), Str(<<"E">>)}

RowsOf(schema) ==
    {r \in [DOMAIN schema -> UNION {CellsOf(schema, schema[j]) : j \in DOMAIN schema}] :
        \A j \in DOMAIN schema : r[j] \in CellsOf(schema, schema[j])}

Init ==
    /\ argsort_unstable \in BOOLEAN
    /\ grid = <<>>
    /\ \E schema \in Schemas : \E k \in 0 .. MaxRecs : \E rows \in [1 .. k -> RowsOf(schema)] :
          clean = DataFrame(schema, rows)
    /\ df = clean
    /\ pc = "table"
    /\ messages = <<>>
    /\ results = <<>>

(* one call of analyze_billing_data(df) on the table object as it now is:  *)
(* the first on the Clean Table, the second on the table the first left    *)
Aggregate ==
    /\ pc \in {"table", "once"}
    /\ pc' = IF pc = "table" THEN "once" ELSE "twice"
    /\ LET r == analyze_billing_data(df, ~argsort_unstable)
       IN  /\ df' = r.df
           /\ results' = Append(results, r.ret)
           /\ messages' = messages \o r.ret.errors
    /\ UNCHANGED <<grid, clean, argsort_unstable>>

Next == Aggregate

Spec == Init /\ [][Next]_vars

---------------------------------------------------------------------------
(* Vocabulary of the properties, stated on the Clean Table itself *)

Elems(seq) == {seq[k] : k \in DOMAIN seq}
Keys(list) == {list[k].key : k \in DOMAIN list}

(* a cell whose string form has a non-whitespace symbol *)
NonBlank(c) ==
    \/ c.t = "num"
    \/ c.t = "str" /\ \E k \in DOMAIN c.s : c.s[k] # " "

(* the priority rule: Denial Reason, else Payment Amount, else Balance *)
RuleDenied(t, i) ==
    IF HasCol(t, DENIAL_REASON) THEN NonBlank(getitem(t, DENIAL_REASON)[i])
    ELSE IF HasCol(t, PAYMENT_AMOUNT) THEN getitem(t, PAYMENT_AMOUNT)[i] = Num(0)
    ELSE IF HasCol(t, BALANCE)
    THEN getitem(t, BALANCE)[i].t = "num" /\ getitem(t, BALANCE)[i].n > 0
    ELSE FALSE

DeniedIdx == {i \in DOMAIN clean.data : RuleDenied(clean, i)}

NoSignal ==
    ~HasCol(clean, DENIAL_REASON) /\ ~HasCol(clean, PAYMENT_AMOUNT) /\ ~HasCol(clean, BALANCE)

(* the checks the code makes before it aggregates (lines 37 and 56) *)
PassesColumnChecks ==
    (HasCol(clean, PAYMENT_AMOUNT) \/ HasCol(clean, BALANCE)) /\ HasCol(clean, CPT_CODE)

IsNoDenialsOutcome(r) ==
    /\ r.kind = "no_denials"
    /\ r.errors = <<>>
    /\ r.top_denied_cpts = <<>>
    /\ r.cpt_denial_rates = <<>>
    /\ r.denials_by_payer = <<>>
    /\ r.denials_by_provider = <<>>
    /\ r.root_causes_summary.text = "No significant denials to analyze for root causes."
    /\ r.figures = <<>>

---------------------------------------------------------------------------
(* C1: whenever load finds a header row, the Clean Table's records are      *)
(* exactly the non-empty rows strictly after that header row, in original   *)
(* order, and its column names are the trimmed string forms of the header   *)
(* cells (so no data row is lost to empty rows dropped before the header).  *)
C1_RecordsAreRowsAfterHeader ==
    (pc # "uploaded" /\ \E i \in DOMAIN grid : notnull_sum(grid[i]) >= 3) =>
        LET h == CHOOSE i \in DOMAIN grid :
                    /\ notnull_sum(grid[i]) >= 3
                    /\ \A j \in 1 .. (i - 1) : notnull_sum(grid[j]) < 3
        IN  /\ ~clean.none
            /\ clean.columns = [j \in DOMAIN grid[h] |-> strip(str_of(grid[h][j]))]
            /\ clean.data = SelectSeq(SubSeq(grid, h + 1, Len(grid)),
                                      LAMBDA r : notnull_sum(r) > 0)

---------------------------------------------------------------------------
(* C2: a table with CPT Code and Denial Reason but neither Payment Amount   *)
(* nor Balance gets no column error: it is classified by Denial Reason and  *)
(* aggregated.                                                              *)
C2_DenialReasonAloneSuffices ==
    \A k \in DOMAIN results :
        ( /\ HasCol(clean, CPT_CODE) /\ HasCol(clean, DENIAL_REASON)
          /\ ~HasCol(clean, PAYMENT_AMOUNT) /\ ~HasCol(clean, BALANCE) ) =>
            /\ results[k].errors = <<>>
            /\ results[k].kind = (IF DeniedIdx = {} THEN "no_denials" ELSE "report")

---------------------------------------------------------------------------
---------------------------------------------------------------------------
---------------------------------------------------------------------------
(* C5: when a record is denied, the ranked code list holds exactly the      *)
(* codes of the denied records, each with its number of denied records, and *)
(* the rate table holds every code of the full table, each with rate        *)
(* denied-count / total-count (0 for a code with no denied record).         *)
C5_RankedListAndRateTable ==
    \A k \in DOMAIN results :
        (PassesColumnChecks /\ DeniedIdx # {}) =>
            LET codes == getitem(clean, CPT_CODE)
                top == results[k].top_denied_cpts
                rates == results[k].cpt_denial_rates
            IN  /\ results[k].kind = "report"
                /\ Keys(top) = {codes[i] : i \in {j \in DeniedIdx : codes[j].t # "null"}}
                /\ Cardinality(Keys(top)) = Len(top)
                /\ \A e \in DOMAIN top :
                      /\ top[e].den = 1
                      /\ top[e].num = Cardinality({i \in DeniedIdx : codes[i] = top[e].key})
                /\ Keys(rates) = {codes[i] : i \in {j \in DOMAIN codes : codes[j].t # "null"}}
                /\ Cardinality(Keys(rates)) = Len(rates)
                /\ \A e \in DOMAIN rates :
                      /\ rates[e].num = Cardinality({i \in DeniedIdx : codes[i] = rates[e].key})
                      /\ rates[e].den = Cardinality({i \in DOMAIN codes : codes[i] = rates[e].key})

C5_Witness ==
    /\ results # <<>>
    /\ clean = DataFrame(<<CPT_CODE, PAYMENT_AMOUNT>>,
                         << <<Str(<<"A">>), Num(0)>>, <<Str(<<"A">>), Num(0)>>,
                            <<Str(<<"B">>), Num(5)>> >>)
    /\ results[1].top_denied_cpts = <<[key |-> Str(<<"A">>), num |-> 2, den |-> 1]>>
    /\ results[1].cpt_denial_rates = <<[key |-> Str(<<"A">>), num |-> 2, den |-> 2],
                                       [key |-> Str(<<"B">>), num |-> 0, den |-> 1]>>

---------------------------------------------------------------------------
(* C6: when every row of the grid has fewer than 3 non-null cells (the      *)
(* empty grid included), load returns None and the script reports "no valid *)
(* header" without calling the analysis.                                    *)
C6_SparseGridIsNotFound ==
    (\A i \in DOMAIN grid : notnull_sum(grid[i]) < 3) =>
        /\ pc # "uploaded" => df = None
        /\ pc = "done" => (messages = <<ERR_NO_HEADER>> /\ results = <<>>)

C6_Witness ==
    /\ pc = "done"
    /\ Len(grid) >= 2
    /\ \A i \in DOMAIN grid : notnull_sum(grid[i]) < 3
    /\ \E i \in DOMAIN grid : notnull_sum(grid[i]) = 2
    /\ messages = <<ERR_NO_HEADER>>

---------------------------------------------------------------------------
(* C7: a table that passes both column checks and has no denied record      *)
(* gets the non-error "no denials" outcome: empty ranked list, the fixed    *)
(* narrative, no figures, no breakdowns.                                    *)
C7_NoDeniedRecordsIsNormalOutcome ==
    \A k \in DOMAIN results :
        (PassesColumnChecks /\ DeniedIdx = {}) => IsNoDenialsOutcome(results[k])

C7_Witness ==
    /\ results # <<>>
    /\ clean.columns = <<CPT_CODE, PAYMENT_AMOUNT>>
    /\ Len(clean.data) >= 2
    /\ \A i \in DOMAIN clean.data : getitem(clean, PAYMENT_AMOUNT)[i] = Num(5)
    /\ IsNoDenialsOutcome(results[1])

---------------------------------------------------------------------------
(* C8: the narrative's top denying payers (resp. providers) are exactly the *)
(* payers (resp. providers) whose number of denied records is the maximum   *)
(* of the breakdown: every one tied for it, none with fewer.                *)
TiedForMax(cells) ==
    LET n(v) == Cardinality({i \in DeniedIdx : cells[i] = v})
        named == {i \in DeniedIdx : cells[i].t # "null"}
    IN  {str_of(cells[i]) : i \in {j \in named : \A m \in named : n(cells[m]) <= n(cells[j])}}

C8_TopDenyingAreAllTied ==
    \A k \in DOMAIN results :
        results[k].kind = "report" =>
            LET payers == results[k].root_causes_summary.payers
                providers == results[k].root_causes_summary.providers
            IN  /\ Cardinality(Elems(payers)) = Len(payers)
                /\ Cardinality(Elems(providers)) = Len(providers)
                /\ Elems(payers) =
                      IF HasCol(clean, INSURANCE_COMPANY_NAME)
                      THEN TiedForMax(getitem(clean, INSURANCE_COMPANY_NAME)) ELSE {}
                /\ Elems(providers) =
                      IF HasCol(clean, PHYSICIAN_NAME)
                      THEN TiedForMax(getitem(clean, PHYSICIAN_NAME)) ELSE {}

C8_Witness ==
    /\ results # <<>>
    /\ results[1].kind = "report"
    /\ Len(clean.data) = 3
    /\ Cardinality(DeniedIdx) = 2
    /\ Elems(results[1].root_causes_summary.payers) = {<<"P">>, <<"Q">>}

---------------------------------------------------------------------------
(* C9 as claimed: the ranked list, the rate table and the two breakdowns    *)
(* are ordered by their metric descending, and entries with equal metric    *)
(* appear in the order of their first appearance in the table (among the    *)
(* denied records for the three counts).                                    *)
FirstAt(cells, idx, key) ==
    CHOOSE i \in idx : cells[i] = key /\ \A j \in idx : cells[j] = key => i <= j

OrderedAsClaimed(list, cells, idx) ==
    \A a, b \in DOMAIN list :
        a < b =>
            \/ metric_gt(list[a], list[b])
            \/ /\ ~metric_gt(list[b], list[a])
               /\ FirstAt(cells, idx, list[a].key) < FirstAt(cells, idx, list[b].key)

C9_TiesInFirstAppearanceOrder ==
    \A k \in DOMAIN results :
        results[k].kind = "report" =>
            /\ OrderedAsClaimed(results[k].top_denied_cpts, getitem(clean, CPT_CODE), DeniedIdx)
            /\ OrderedAsClaimed(results[k].cpt_denial_rates, getitem(clean, CPT_CODE),
                                DOMAIN clean.data)
            /\ HasCol(clean, INSURANCE_COMPANY_NAME) =>
                  OrderedAsClaimed(results[k].denials_by_payer,
                                   getitem(clean, INSURANCE_COMPANY_NAME), DeniedIdx)
            /\ HasCol(clean, PHYSICIAN_NAME) =>
                  OrderedAsClaimed(results[k].denials_by_provider,
                                   getitem(clean, PHYSICIAN_NAME), DeniedIdx)

(* C9 as amended: the four lists are ordered by their metric descending;    *)
(* no order is promised among entries with equal metric.                    *)
Descending(list) ==
    \A a, b \in DOMAIN list : a < b => list[a].num * list[b].den >= list[b].num * list[a].den

C9_OrderedByMetricDescending ==
    \A k \in DOMAIN results :
        results[k].kind = "report" =>
            /\ Descending(results[k].top_denied_cpts)
            /\ Descending(results[k].cpt_denial_rates)
            /\ Descending(results[k].denials_by_payer)
            /\ Descending(results[k].denials_by_provider)

C9_Witness ==
    /\ results # <<>>
    /\ results[1].kind = "report"
    /\ Len(results[1].top_denied_cpts) = 2
    /\ Len(results[1].cpt_denial_rates) = 2
    /\ results[1].cpt_denial_rates[1].num * results[1].cpt_denial_rates[2].den
          > results[1].cpt_denial_rates[2].num * results[1].cpt_denial_rates[1].den
    /\ getitem(clean, CPT_CODE)[1] = results[1].cpt_denial_rates[2].key
    /\ Len(results[1].denials_by_payer) = 2

---------------------------------------------------------------------------
(* C10: a second call of aggregate, on the table object as the first call   *)
(* left it (with its Is_Denied column), returns what the first returned:    *)
(* the same ranked list, tables, narratives, figures, or the same error.    *)
C10_SecondCallReturnsTheSame ==
    \A k \in DOMAIN results : results[k] = results[1]

C10_Witness ==
    /\ pc = "twice"
    /\ Len(results) = 2
    /\ results[2].kind = "report"
    /\ Len(results[2].top_denied_cpts) = 2
    /\ HasCol(df, IS_DENIED)
    /\ ~HasCol(clean, IS_DENIED)

=============================================================================
